---- MODULE Spec2Model ----
(***************************************************************************)
(* Blood-donation chaincode (src/blood.go), usage-history variant          *)
(* (lines 307-651); the handlers of the first variant (lines 1-305) carry  *)
(* the suffix V1.  The world state is a key/value store of JSON            *)
(* documents.  One invocation runs a handler against the committed store:  *)
(* GetState reads the committed value (never the invocation's own          *)
(* writes), PutState appends to the invocation's write set, and the host   *)
(* commits the write set only when the handler returns nil.                *)
(***************************************************************************)
EXTENDS Integers, Sequences, FiniteSets, TLC

\* ---------------------------------------------------------------- bounds
MaxQty == 2          \* largest quantity argument / stored quantity explored
MaxClock == 2        \* last clock tick explored
MaxAccepted == 2     \* cap on the count of successful AcceptBlood calls
MaxPending == 2      \* simulated-but-uncommitted invocations in flight
ScenarioClock == 7   \* last clock tick explored by the section 8 scenario
TicksPerSecond == 2  \* clock ticks inside one formatted second

\* ---------------------------------------------------------------- inputs
KeyIds == {"U1"}                \* strings passed as the key argument
DonorArgs == {"D1"}             \* donorID argument of RecordDonation
AcceptorArgs == {"A1"}          \* acceptorID argument of AcceptBlood
Quantities == (0 - 1)..MaxQty   \* quantity arguments, negative included
TestResults == {"Safe", "Reactive"}
Names == {"N1", "N2"}           \* name argument of RegisterDonor

VARIABLES store,     \* committed world state: key -> JSON document
          now,       \* wall clock, in ticks
          last,      \* the invocation that ran last and its outcome
          accepted,  \* number of AcceptBlood invocations that returned nil
          ver,       \* committed version of every key (host MVCC)
          pending,   \* simulated invocations awaiting commit validation
          spent,     \* sum of the quantities of committed AcceptBlood
          recorded,  \* quantity the contended unit was recorded with
          pc,        \* position in the section 8 scenario
          store1     \* committed world state of the first file variant

vars == <<store, now, last, accepted, ver, pending, spent, recorded, pc,
          store1>>

\* ------------------------------------------------------------ JSON layer
DonorFields == {"donorID", "name", "bloodType"}
AcceptorFields == {"acceptorID", "name", "location", "phoneNumber"}
BloodUnitFields == {"unitID", "donorID", "acceptorID", "bloodType", "quantity",
                    "status", "testResult", "hospitalName", "date"}
UsageHistoryFields == {"unitID", "acceptorID", "quantity", "date"}

\* Go zero value of a struct field: 0 for the int field, "" for strings.
Zero(f) == IF f = "quantity" THEN 0 ELSE ""

\* json.Unmarshal into a struct: fields present in the document are copied,
\* absent ones keep the zero value, unknown ones are dropped.
Unmarshal(fields, doc) ==
  [f \in fields |-> IF f \in DOMAIN doc THEN doc[f] ELSE Zero(f)]

\* time.Now().Format("2006-01-02 15:04:05"): the clock cut to whole seconds.
FormatDate(clk) == "T" \o ToString(clk \div TicksPerSecond)

\* fmt.Sprintf("%s_%s", unitID, historyDate)
HistoryKey(unitID, historyDate) == unitID \o "_" \o historyDate

\* --------------------------------------------------------- invocation result
\* err = "ok" is a nil error; writes is the write set in PutState order;
\* reads is the set of keys passed to GetState.
Result(err, writes, reads) == [err |-> err, writes |-> writes, reads |-> reads]

\* The i-th stub call of the invocation fails with an infrastructure error
\* when fault = i; fault = 0 means no stub call fails.
StubFails(fault, i) == fault = i

\* AcceptBlood makes up to five stub calls and is the only handler that makes
\* a stub call after a PutState; the faults are explored there.
Faults == 0..5

\* ----------------------------------------------------------------- handlers
\* RegisterDonor: one PutState under key donorID, no read.
RegisterDonor(donorID, name, bloodType, fault) ==
  LET donor == [donorID |-> donorID, name |-> name, bloodType |-> bloodType]
  IN IF StubFails(fault, 1) THEN Result("store", <<>>, {})
     ELSE Result("ok", << <<donorID, donor>> >>, {})

\* RegisterAcceptor: one PutState under key acceptorID, no read.
RegisterAcceptor(acceptorID, name, location, phoneNumber, fault) ==
  LET acceptor == [acceptorID |-> acceptorID, name |-> name,
                   location |-> location, phoneNumber |-> phoneNumber]
  IN IF StubFails(fault, 1) THEN Result("store", <<>>, {})
     ELSE Result("ok", << <<acceptorID, acceptor>> >>, {})

\* Variant of RecordDonation: the Quantity field is left out of the struct
\* literal and keeps its zero value.
RecordDonationNoQuantity(unitID, donorID, bloodType, quantity, hospitalName, acceptorID, clk, fault) ==
  LET bloodUnit == [unitID |-> unitID, donorID |-> donorID,
                    acceptorID |-> acceptorID, bloodType |-> bloodType,
                    quantity |-> 0, status |-> "Collected",
                    testResult |-> "", hospitalName |-> hospitalName,
                    date |-> FormatDate(clk)]
  IN IF StubFails(fault, 1) THEN Result("store", <<>>, {})
     ELSE Result("ok", << <<unitID, bloodUnit>> >>, {})

\* RecordDonation: builds the unit with status "Collected" and the formatted
\* current time, then one PutState under key unitID; the key is not read.
RecordDonation(unitID, donorID, bloodType, quantity, hospitalName, acceptorID, clk, fault) ==
  LET bloodUnit == [unitID |-> unitID, donorID |-> donorID,
                    acceptorID |-> acceptorID, bloodType |-> bloodType,
                    quantity |-> quantity, status |-> "Collected",
                    testResult |-> "", hospitalName |-> hospitalName,
                    date |-> FormatDate(clk)]
  IN IF StubFails(fault, 1) THEN Result("store", <<>>, {})
     ELSE Result("ok", << <<unitID, bloodUnit>> >>, {})

\* Variant of TestBlood: the result is compared with "Unsafe" instead of
\* "Safe", so any other string counts as safe.
TestBloodUnsafeOnly(st, unitID, testResult, fault) ==
  IF StubFails(fault, 1) THEN Result("store", <<>>, {unitID})
  ELSE IF unitID \notin DOMAIN st THEN Result("notfound", <<>>, {unitID})
  ELSE
    LET bloodUnit == Unmarshal(BloodUnitFields, st[unitID])
        updated == [bloodUnit EXCEPT
                      !.testResult = testResult,
                      !.status = IF testResult = "Unsafe" THEN "Unsafe"
                                 ELSE "Tested"]
    IN IF StubFails(fault, 2) THEN Result("store", <<>>, {unitID})
       ELSE Result("ok", << <<unitID, updated>> >>, {unitID})

\* TestBlood: GetState, nil check, Unmarshal, set testResult and status,
\* PutState.
TestBlood(st, unitID, testResult, fault) ==
  IF StubFails(fault, 1) THEN Result("store", <<>>, {unitID})
  ELSE IF unitID \notin DOMAIN st THEN Result("notfound", <<>>, {unitID})
  ELSE
    LET bloodUnit == Unmarshal(BloodUnitFields, st[unitID])
        updated == [bloodUnit EXCEPT
                      !.testResult = testResult,
                      !.status = IF testResult = "Safe" THEN "Tested"
                                 ELSE "Unsafe"]
    IN IF StubFails(fault, 2) THEN Result("store", <<>>, {unitID})
       ELSE Result("ok", << <<unitID, updated>> >>, {unitID})

\* Variant of UseBlood: marking the unit used also clears its stock.
UseBloodClearsQuantity(st, unitID, fault) ==
  IF StubFails(fault, 1) THEN Result("store", <<>>, {unitID})
  ELSE IF unitID \notin DOMAIN st THEN Result("notfound", <<>>, {unitID})
  ELSE
    LET bloodUnit == Unmarshal(BloodUnitFields, st[unitID])
        updated == [bloodUnit EXCEPT !.status = "Used", !.quantity = 0]
    IN IF StubFails(fault, 2) THEN Result("store", <<>>, {unitID})
       ELSE Result("ok", << <<unitID, updated>> >>, {unitID})

\* UseBlood: GetState (committed value), nil check, Unmarshal, status "Used",
\* PutState.
UseBlood(st, unitID, fault) ==
  IF StubFails(fault, 1) THEN Result("store", <<>>, {unitID})
  ELSE IF unitID \notin DOMAIN st THEN Result("notfound", <<>>, {unitID})
  ELSE
    LET bloodUnit == Unmarshal(BloodUnitFields, st[unitID])
        updated == [bloodUnit EXCEPT !.status = "Used"]
    IN IF StubFails(fault, 2) THEN Result("store", <<>>, {unitID})
       ELSE Result("ok", << <<unitID, updated>> >>, {unitID})

\* Variant of AcceptBloodReads: the unit is taken from elsewhere than
\* GetState, so the host sees no read of its key.
AcceptBloodReadsNothing(unitID) == {}

\* AcceptBlood, line 523: the unit key is read through GetState, which puts
\* it in the invocation's read set.
AcceptBloodReads(unitID) == {unitID}

\* Variant of Insufficient: the comparison is off by one.
InsufficientOffByOne(available, quantity) == available + 1 < quantity

\* AcceptBlood, line 538: the request is refused when it exceeds the stock.
Insufficient(available, quantity) == available < quantity

\* Variant of PutHistory: the error of the history PutState is ignored.
PutHistoryIgnoringError(writes, historyKey, usageHistory, failed) ==
  IF failed THEN [err |-> "ok", writes |-> writes]
  ELSE [err |-> "ok", writes |-> Append(writes, <<historyKey, usageHistory>>)]

\* AcceptBlood, lines 575-578: PutState of the history record; a failure is
\* returned to the caller.
PutHistory(writes, historyKey, usageHistory, failed) ==
  IF failed THEN [err |-> "store", writes |-> writes]
  ELSE [err |-> "ok", writes |-> Append(writes, <<historyKey, usageHistory>>)]

\* AcceptBlood: GetState, nil check, Unmarshal, quantity check, decrement,
\* status (with the nested UseBlood when the remainder is zero), PutState of
\* the history record under unitID_date, PutState of the unit.  The nested
\* UseBlood reads the committed unit, so its write carries the old quantity;
\* the final PutState of the same key comes later in the write set.
AcceptBlood(st, unitID, acceptorID, quantity, clk, fault) ==
  IF StubFails(fault, 1) THEN Result("store", <<>>, AcceptBloodReads(unitID))
  ELSE IF unitID \notin DOMAIN st
  THEN Result("notfound", <<>>, AcceptBloodReads(unitID))
  ELSE
    LET bloodUnit == Unmarshal(BloodUnitFields, st[unitID])
    IN IF Insufficient(bloodUnit.quantity, quantity)
       THEN Result("insufficient", <<>>, AcceptBloodReads(unitID))
       ELSE
         LET remaining == bloodUnit.quantity - quantity
             used == UseBlood(st, unitID, fault - 1)
             nested == IF remaining = 0 THEN used.writes ELSE <<>>
             calls == IF remaining = 0 THEN 3 ELSE 1
             updated == [bloodUnit EXCEPT
                           !.quantity = remaining,
                           !.status = IF remaining = 0 THEN "Used"
                                      ELSE "Partially Used"]
             historyDate == FormatDate(clk)
             usageHistory == [unitID |-> unitID, acceptorID |-> acceptorID,
                              quantity |-> quantity, date |-> historyDate]
             historyKey == HistoryKey(unitID, historyDate)
             h == PutHistory(nested, historyKey, usageHistory,
                             StubFails(fault, calls + 1))
         IN IF remaining = 0 /\ used.err # "ok"
            THEN Result(used.err, nested, AcceptBloodReads(unitID))
            ELSE IF h.err # "ok"
            THEN Result(h.err, h.writes, AcceptBloodReads(unitID))
            ELSE IF StubFails(fault, calls + 2)
            THEN Result("store", h.writes, AcceptBloodReads(unitID))
            ELSE Result("ok", Append(h.writes, <<unitID, updated>>),
                        AcceptBloodReads(unitID))

\* ------------------------------------------- handlers, first file variant
\* Lines 1-305: the same contract before the usage history was added.  Its
\* BloodUnit has neither acceptorID nor date, RecordDonation takes no
\* acceptorID, and AcceptBlood writes no history record.
BloodUnitFieldsV1 == {"unitID", "donorID", "bloodType", "quantity", "status",
                      "testResult", "hospitalName"}

\* RecordDonation (lines 70-84): status "Collected", one PutState, no read.
RecordDonationV1(unitID, donorID, bloodType, quantity, hospitalName, fault) ==
  LET bloodUnit == [unitID |-> unitID, donorID |-> donorID,
                    bloodType |-> bloodType, quantity |-> quantity,
                    status |-> "Collected", testResult |-> "",
                    hospitalName |-> hospitalName]
  IN IF StubFails(fault, 1) THEN Result("store", <<>>, {})
     ELSE Result("ok", << <<unitID, bloodUnit>> >>, {})

\* TestBlood (lines 87-115).
TestBloodV1(st, unitID, testResult, fault) ==
  IF StubFails(fault, 1) THEN Result("store", <<>>, {unitID})
  ELSE IF unitID \notin DOMAIN st THEN Result("notfound", <<>>, {unitID})
  ELSE
    LET bloodUnit == Unmarshal(BloodUnitFieldsV1, st[unitID])
        updated == [bloodUnit EXCEPT
                      !.testResult = testResult,
                      !.status = IF testResult = "Safe" THEN "Tested"
                                 ELSE "Unsafe"]
    IN IF StubFails(fault, 2) THEN Result("store", <<>>, {unitID})
       ELSE Result("ok", << <<unitID, updated>> >>, {unitID})

\* UseBlood (lines 243-265): GetState (committed value), nil check,
\* Unmarshal, status "Used", PutState.
UseBloodV1(st, unitID, fault) ==
  IF StubFails(fault, 1) THEN Result("store", <<>>, {unitID})
  ELSE IF unitID \notin DOMAIN st THEN Result("notfound", <<>>, {unitID})
  ELSE
    LET bloodUnit == Unmarshal(BloodUnitFieldsV1, st[unitID])
        updated == [bloodUnit EXCEPT !.status = "Used"]
    IN IF StubFails(fault, 2) THEN Result("store", <<>>, {unitID})
       ELSE Result("ok", << <<unitID, updated>> >>, {unitID})

\* AcceptBlood (lines 200-240): GetState, nil check, Unmarshal, quantity
\* check, decrement of the local copy.  When the remainder is zero the
\* handler returns whatever UseBlood returns (line 230): the decremented
\* local copy is never marshalled, and the only write is the one of UseBlood,
\* built from the committed unit.  Otherwise the local copy is stored with
\* status "Partially Used".
AcceptBloodV1(st, unitID, acceptorID, quantity, fault) ==
  IF StubFails(fault, 1) THEN Result("store", <<>>, {unitID})
  ELSE IF unitID \notin DOMAIN st THEN Result("notfound", <<>>, {unitID})
  ELSE
    LET bloodUnit == Unmarshal(BloodUnitFieldsV1, st[unitID])
    IN IF Insufficient(bloodUnit.quantity, quantity)
       THEN Result("insufficient", <<>>, {unitID})
       ELSE
         LET remaining == bloodUnit.quantity - quantity
             updated == [bloodUnit EXCEPT !.quantity = remaining,
                                          !.status = "Partially Used"]
         IN IF remaining = 0 THEN UseBloodV1(st, unitID, fault - 1)
            ELSE IF StubFails(fault, 2)
            THEN Result("store", <<>>, {unitID})
            ELSE Result("ok", << <<unitID, updated>> >>, {unitID})

\* --------------------------------------------------------------------- host
\* PutState: the value replaces whatever the key held.
PutState(st, key, doc) ==
  [k \in DOMAIN st \cup {key} |-> IF k = key THEN doc ELSE st[k]]

RECURSIVE Apply(_, _)
Apply(st, writes) ==
  IF writes = <<>> THEN st
  ELSE Apply(PutState(st, Head(writes)[1], Head(writes)[2]), Tail(writes))

\* One invocation is one unit of work: the write set is applied when the
\* handler returned nil and dropped otherwise.
Commit(st, r) == IF r.err = "ok" THEN Apply(st, r.writes) ELSE st

\* ------------------------------------------------------------------- ghosts
\* last.arg is the string argument that is not the key: the test result of
\* TestBlood, the donor id of RecordDonation.
\* last: operation, arguments, returned error, and the number of PutState
\* calls the invocation had made when it returned an error.
NoCall == [op |-> "none", key |-> "", acceptor |-> "", qty |-> 0,
           arg |-> "", err |-> "ok", dropped |-> 0]
Call(op, key, acceptor, qty, arg, r) ==
  [op |-> op, key |-> key, acceptor |-> acceptor, qty |-> qty, arg |-> arg,
   err |-> r.err, dropped |-> IF r.err = "ok" THEN 0 ELSE Len(r.writes)]

\* Documents are told apart by their JSON field names.
IsHistory(doc) == DOMAIN doc = UsageHistoryFields
IsUnit(doc) == DOMAIN doc = BloodUnitFields
HistoryKeys(st) == {k \in DOMAIN st : IsHistory(st[k])}
QuantityOf(st, k) == Unmarshal(BloodUnitFields, st[k]).quantity
StatusOf(st, k) == Unmarshal(BloodUnitFields, st[k]).status

\* Empty slot of the table of invocations in flight.
NoTx == [err |-> "none"]

\* ---------------------------------------------------------------- serial run
Init ==
  /\ store = << >>
  /\ now = 0
  /\ last = NoCall
  /\ accepted = 0
  /\ ver = << >>
  /\ pending = [i \in 1..MaxPending |-> NoTx]
  /\ spent = 0
  /\ recorded = 0
  /\ pc = "start"
  /\ store1 = << >>

Frame == UNCHANGED <<ver, pending, spent, recorded, pc, store1>>

Tick ==
  /\ now < MaxClock
  /\ now' = now + 1
  /\ UNCHANGED <<store, last, accepted>>
  /\ Frame

RegisterDonorInvoke ==
  \E donorID \in KeyIds, name \in Names :
    LET r == RegisterDonor(donorID, name, "O+", 0)
    IN /\ store' = Commit(store, r)
       /\ last' = Call("RegisterDonor", donorID, "", 0, "", r)
       /\ UNCHANGED <<now, accepted>>
       /\ Frame

RegisterAcceptorInvoke ==
  \E acceptorID \in KeyIds :
    LET r == RegisterAcceptor(acceptorID, "N1", "L1", "P1", 0)
    IN /\ store' = Commit(store, r)
       /\ last' = Call("RegisterAcceptor", acceptorID, "", 0, "", r)
       /\ UNCHANGED <<now, accepted>>
       /\ Frame

RecordDonationInvoke ==
  \E unitID \in KeyIds, donorID \in DonorArgs, quantity \in Quantities,
     acceptorID \in {""} :
    LET r == RecordDonation(unitID, donorID, "O+", quantity, "H1", acceptorID,
                            now, 0)
    IN /\ store' = Commit(store, r)
       /\ last' = Call("RecordDonation", unitID, acceptorID, quantity,
                       donorID, r)
       /\ UNCHANGED <<now, accepted>>
       /\ Frame

TestBloodInvoke ==
  \E unitID \in KeyIds, testResult \in TestResults :
    LET r == TestBlood(store, unitID, testResult, 0)
    IN /\ store' = Commit(store, r)
       /\ last' = Call("TestBlood", unitID, "", 0, testResult, r)
       /\ UNCHANGED <<now, accepted>>
       /\ Frame

UseBloodInvoke ==
  \E unitID \in KeyIds :
    LET r == UseBlood(store, unitID, 0)
    IN /\ store' = Commit(store, r)
       /\ last' = Call("UseBlood", unitID, "", 0, "", r)
       /\ UNCHANGED <<now, accepted>>
       /\ Frame

AcceptBloodInvoke ==
  \E unitID \in KeyIds, acceptorID \in AcceptorArgs, quantity \in Quantities,
     fault \in Faults :
    LET r == AcceptBlood(store, unitID, acceptorID, quantity, now, fault)
    IN /\ r.err = "ok" => accepted < MaxAccepted
       /\ r.err = "ok" => QuantityOf(Commit(store, r), unitID) <= MaxQty
       /\ store' = Commit(store, r)
       /\ last' = Call("AcceptBlood", unitID, acceptorID, quantity, "", r)
       /\ accepted' = IF r.err = "ok" THEN accepted + 1 ELSE accepted
       /\ UNCHANGED now
       /\ Frame

Next ==
  \/ Tick
  \/ RegisterDonorInvoke
  \/ RegisterAcceptorInvoke
  \/ RecordDonationInvoke
  \/ TestBloodInvoke
  \/ UseBloodInvoke
  \/ AcceptBloodInvoke

Spec == Init /\ [][Next]_vars

\* ------------------------------------------------- concurrent invocations
\* The host simulates an invocation against the committed store, recording
\* the version of every key it read, and validates those versions when the
\* invocation is ordered for commit.
Version(k) == IF k \in DOMAIN ver THEN ver[k] ELSE 0

Bump(writes) ==
  LET written == {writes[i][1] : i \in DOMAIN writes}
  IN [k \in DOMAIN ver \cup written |->
        IF k \in written THEN Version(k) + 1 ELSE ver[k]]

Valid(tx) == \A k \in DOMAIN tx.reads : Version(k) = tx.reads[k]

InitMVCC ==
  \E quantity \in 0..MaxQty :
    /\ store = Commit(<< >>, RecordDonation("U1", "D1", "O+", quantity, "H1",
                                            "", 0, 0))
    /\ recorded = quantity
    /\ ver = [k \in {"U1"} |-> 1]
    /\ pending = [i \in 1..MaxPending |-> NoTx]
    /\ spent = 0
    /\ now = 0
    /\ last = NoCall
    /\ accepted = 0
    /\ pc = "start"
    /\ store1 = << >>

TickMVCC ==
  /\ now < MaxClock
  /\ now' = now + 1
  /\ UNCHANGED <<store, last, accepted, ver, pending, spent, recorded, pc,
               store1>>

\* A client submits AcceptBlood with a positive quantity; the handler runs
\* against the committed store and its read and write sets are kept.
SimulateAcceptBlood ==
  \E i \in 1..MaxPending, acceptorID \in AcceptorArgs, quantity \in 1..MaxQty :
    LET r == AcceptBlood(store, "U1", acceptorID, quantity, now, 0)
    IN /\ pending[i] = NoTx
       /\ r.err = "ok"
       /\ pending' = [pending EXCEPT
                        ![i] = [err |-> r.err,
                                reads |-> [k \in r.reads |-> Version(k)],
                                writes |-> r.writes,
                                qty |-> quantity]]
       /\ UNCHANGED <<store, now, last, accepted, ver, spent, recorded, pc,
                    store1>>

\* The invocation in slot i is ordered; its reads are still current, so its
\* write set is committed.
CommitTx ==
  \E i \in 1..MaxPending :
    /\ pending[i] # NoTx
    /\ Valid(pending[i])
    /\ store' = Apply(store, pending[i].writes)
    /\ ver' = Bump(pending[i].writes)
    /\ spent' = spent + pending[i].qty
    /\ pending' = [pending EXCEPT ![i] = NoTx]
    /\ UNCHANGED <<now, last, accepted, recorded, pc, store1>>

\* The invocation in slot i is ordered after a key it read has changed; it
\* is marked invalid and none of its writes is applied.
RejectTx ==
  \E i \in 1..MaxPending :
    /\ pending[i] # NoTx
    /\ ~Valid(pending[i])
    /\ pending' = [pending EXCEPT ![i] = NoTx]
    /\ UNCHANGED <<store, now, last, accepted, ver, spent, recorded, pc,
                    store1>>

NextMVCC ==
  \/ TickMVCC
  \/ SimulateAcceptBlood
  \/ CommitTx
  \/ RejectTx

SpecMVCC == InitMVCC /\ [][NextMVCC]_vars

\* ------------------------------------------------------ section 8 scenario
\* RegisterDonor(D1), RecordDonation(U1, D1, 2), TestBlood(U1, "Safe"),
\* AcceptBlood(U1, A1, 1), AcceptBlood(U1, A1, 1) on an empty store, the clock
\* advancing freely between the invocations.
ScenarioFrame ==
  UNCHANGED <<now, accepted, ver, pending, spent, recorded, store1>>

ScenarioTick ==
  /\ now < ScenarioClock
  /\ now' = now + 1
  /\ UNCHANGED <<store, last, accepted, ver, pending, spent, recorded, pc,
               store1>>

ScenarioRegisterDonor ==
  LET r == RegisterDonor("D1", "N1", "O+", 0)
  IN /\ pc = "start"
     /\ store' = Commit(store, r)
     /\ last' = Call("RegisterDonor", "D1", "", 0, "", r)
     /\ pc' = "registered"
     /\ ScenarioFrame

ScenarioRecordDonation ==
  LET r == RecordDonation("U1", "D1", "O+", 2, "H1", "", now, 0)
  IN /\ pc = "registered"
     /\ store' = Commit(store, r)
     /\ last' = Call("RecordDonation", "U1", "", 2, "D1", r)
     /\ pc' = "recorded"
     /\ ScenarioFrame

ScenarioTestBlood ==
  LET r == TestBlood(store, "U1", "Safe", 0)
  IN /\ pc = "recorded"
     /\ store' = Commit(store, r)
     /\ last' = Call("TestBlood", "U1", "", 0, "Safe", r)
     /\ pc' = "tested"
     /\ ScenarioFrame

ScenarioAcceptBlood ==
  LET r == AcceptBlood(store, "U1", "A1", 1, now, 0)
  IN /\ pc \in {"tested", "accepted1"}
     /\ store' = Commit(store, r)
     /\ last' = Call("AcceptBlood", "U1", "A1", 1, "", r)
     /\ pc' = IF pc = "tested" THEN "accepted1" ELSE "done"
     /\ ScenarioFrame

NextScenario ==
  \/ ScenarioTick
  \/ ScenarioRegisterDonor
  \/ ScenarioRecordDonation
  \/ ScenarioTestBlood
  \/ ScenarioAcceptBlood

SpecScenario == Init /\ [][NextScenario]_vars

\* ------------------------------------------------- the two variants side by side
\* Every invocation is submitted with the same arguments to both variants;
\* the first variant runs against store1, the second against store, and each
\* commits its own write set.  last records the outcome of the second
\* variant.  Quantities are drawn from 0..MaxQty: the variants are compared
\* on requests that neither of them should refuse for being negative.
StockQuantities == 0..MaxQty

VariantsFrame == UNCHANGED <<ver, pending, spent, recorded, pc>>

VariantsTick ==
  /\ now < MaxClock
  /\ now' = now + 1
  /\ UNCHANGED <<store, store1, last, accepted>>
  /\ VariantsFrame

VariantsRecordDonation ==
  \E unitID \in KeyIds, donorID \in DonorArgs, quantity \in StockQuantities :
    LET r1 == RecordDonationV1(unitID, donorID, "O+", quantity, "H1", 0)
        r == RecordDonation(unitID, donorID, "O+", quantity, "H1", "", now, 0)
    IN /\ store1' = Commit(store1, r1)
       /\ store' = Commit(store, r)
       /\ last' = Call("RecordDonation", unitID, "", quantity, donorID, r)
       /\ UNCHANGED <<now, accepted>>
       /\ VariantsFrame

VariantsTestBlood ==
  \E unitID \in KeyIds, testResult \in TestResults :
    LET r1 == TestBloodV1(store1, unitID, testResult, 0)
        r == TestBlood(store, unitID, testResult, 0)
    IN /\ store1' = Commit(store1, r1)
       /\ store' = Commit(store, r)
       /\ last' = Call("TestBlood", unitID, "", 0, testResult, r)
       /\ UNCHANGED <<now, accepted>>
       /\ VariantsFrame

VariantsUseBlood ==
  \E unitID \in KeyIds :
    LET r1 == UseBloodV1(store1, unitID, 0)
        r == UseBlood(store, unitID, 0)
    IN /\ store1' = Commit(store1, r1)
       /\ store' = Commit(store, r)
       /\ last' = Call("UseBlood", unitID, "", 0, "", r)
       /\ UNCHANGED <<now, accepted>>
       /\ VariantsFrame

VariantsAcceptBlood ==
  \E unitID \in KeyIds, acceptorID \in AcceptorArgs,
     quantity \in StockQuantities :
    LET r1 == AcceptBloodV1(store1, unitID, acceptorID, quantity, 0)
        r == AcceptBlood(store, unitID, acceptorID, quantity, now, 0)
        ok == r1.err = "ok" \/ r.err = "ok"
    IN /\ ok => accepted < MaxAccepted
       /\ store1' = Commit(store1, r1)
       /\ store' = Commit(store, r)
       /\ last' = Call("AcceptBlood", unitID, acceptorID, quantity, "", r)
       /\ accepted' = IF ok THEN accepted + 1 ELSE accepted
       /\ UNCHANGED now
       /\ VariantsFrame

NextVariants ==
  \/ VariantsTick
  \/ VariantsRecordDonation
  \/ VariantsTestBlood
  \/ VariantsUseBlood
  \/ VariantsAcceptBlood

SpecVariants == Init /\ [][NextVariants]_vars

\* ------------------------------------------------------------- vocabulary
\* The step is an invocation of op: invocations leave the clock alone and
\* record themselves in last.
Invoked(op) == now' = now /\ last'.op = op

HistoryCount(st) == Cardinality(HistoryKeys(st))
HistoryOf(st, unitID) == {k \in HistoryKeys(st) : st[k].unitID = unitID}
UnitKeys(st) == {k \in DOMAIN st : IsUnit(st[k])}

\* ------------------------------------------------------------------ C1
\* C1: AcceptBlood on an existing unit whose stored quantity is less than the
\* requested quantity fails, and the store (the unit's quantity and status,
\* the set of history records) is left exactly as it was.
C1_InsufficientLeavesStore ==
  [][(/\ Invoked("AcceptBlood")
      /\ last'.key \in UnitKeys(store)
      /\ QuantityOf(store, last'.key) < last'.qty)
     => (last'.err # "ok" /\ store' = store)]_vars

C1_Witness ==
  /\ last.op = "AcceptBlood"
  /\ last.err = "insufficient"
  /\ last.key \in UnitKeys(store)
  /\ QuantityOf(store, last.key) < last.qty

\* ------------------------------------------------------------------ C2
\* C2: AcceptBlood(u, a, q) with 0 < q < current quantity, from any reachable
\* store and at any clock value, decrements the quantity by q, sets status
\* "Partially Used", and raises the number of stored history records by one,
\* the new record carrying u, a and q.
C2_PartialAcceptance ==
  [][(/\ Invoked("AcceptBlood")
      /\ last'.err # "store"
      /\ last'.key \in UnitKeys(store)
      /\ 0 < last'.qty
      /\ last'.qty < QuantityOf(store, last'.key))
     => (/\ last'.err = "ok"
         /\ QuantityOf(store', last'.key)
              = QuantityOf(store, last'.key) - last'.qty
         /\ StatusOf(store', last'.key) = "Partially Used"
         /\ HistoryCount(store') = HistoryCount(store) + 1
         /\ \E k \in HistoryKeys(store') \ HistoryKeys(store) :
              /\ store'[k].unitID = last'.key
              /\ store'[k].acceptorID = last'.acceptor
              /\ store'[k].quantity = last'.qty)]_vars

\* ------------------------------------------------------------------ C3
\* C3: AcceptBlood(u, a, q) with q equal to the current quantity leaves the
\* committed unit with status "Used" and quantity 0 and raises the number of
\* stored history records by one.
C3_FullAcceptance ==
  [][(/\ Invoked("AcceptBlood")
      /\ last'.err # "store"
      /\ last'.key \in UnitKeys(store)
      /\ last'.qty = QuantityOf(store, last'.key))
     => (/\ last'.err = "ok"
         /\ QuantityOf(store', last'.key) = 0
         /\ StatusOf(store', last'.key) = "Used"
         /\ HistoryCount(store') = HistoryCount(store) + 1)]_vars

\* ------------------------------------------------------------------ C4
\* C4: the quantity of every stored blood unit is non-negative in every
\* reachable state, whatever integer quantities the invocations are given.
C4_QuantityNonNegative ==
  \A k \in UnitKeys(store) : store[k].quantity >= 0

\* ------------------------------------------------------------------ C5
\* C5: once a unit has status "Used" or "Unsafe", no successful TestBlood,
\* AcceptBlood or UseBlood on it changes the status or reduces the quantity.
C5_TerminalStates ==
  [][\A k \in UnitKeys(store) :
       (/\ store[k].status \in {"Used", "Unsafe"}
        /\ now' = now
        /\ last'.op \in {"TestBlood", "AcceptBlood", "UseBlood"}
        /\ last'.key = k
        /\ last'.err = "ok")
       => (/\ StatusOf(store', k) = store[k].status
           /\ QuantityOf(store', k) >= store[k].quantity)]_vars

\* ------------------------------------------------------------------ C6
\* C6: every status change made by TestBlood, AcceptBlood or UseBlood is an
\* edge of the lifecycle Collected -> Tested | Unsafe, Tested -> Partially
\* Used | Used, Partially Used -> Partially Used | Used.
LifecycleEdges ==
  {<<"Collected", "Tested">>, <<"Collected", "Unsafe">>,
   <<"Tested", "Partially Used">>, <<"Tested", "Used">>,
   <<"Partially Used", "Partially Used">>, <<"Partially Used", "Used">>}

C6_LifecycleEdges ==
  [][\A k \in UnitKeys(store) :
       (/\ now' = now
        /\ last'.op \in {"TestBlood", "AcceptBlood", "UseBlood"}
        /\ last'.key = k
        /\ last'.err = "ok"
        /\ StatusOf(store', k) # store[k].status)
       => <<store[k].status, StatusOf(store', k)>> \in LifecycleEdges]_vars

C10_HistoryAppendOnly ==
  /\ [](HistoryCount(store) = accepted)
  /\ [][\A k \in HistoryKeys(store) :
          k \in DOMAIN store' /\ store'[k] = store[k]]_vars

\* ------------------------------------------------------------------ C7
\* C7: with every invocation's reads validated at commit, however concurrent
\* AcceptBlood invocations with positive quantities on one unit interleave,
\* the quantities of the committed ones sum to no more than the quantity the
\* unit was recorded with.
C7_NoDoubleSpend == spent <= recorded

\* One acceptance has been committed while another invocation that read the
\* version it replaced is still waiting for validation.
C7_Witness ==
  /\ spent > 0
  /\ \E i \in 1..MaxPending :
       /\ pending[i] # NoTx
       /\ pending[i].reads["U1"] # Version("U1")

\* ------------------------------------------------------------------ C9
\* C9: the section 8 scenario yields status "Tested" after the test; quantity
\* 1, status "Partially Used" and one history record after the first
\* acceptance; quantity 0, status "Used" and two history records for U1
\* after the second, whatever the clock returns.
C9_Scenario ==
  /\ pc = "tested" => StatusOf(store, "U1") = "Tested"
  /\ pc = "accepted1" =>
       /\ QuantityOf(store, "U1") = 1
       /\ StatusOf(store, "U1") = "Partially Used"
       /\ Cardinality(HistoryOf(store, "U1")) = 1
  /\ pc = "done" =>
       /\ QuantityOf(store, "U1") = 0
       /\ StatusOf(store, "U1") = "Used"
       /\ Cardinality(HistoryOf(store, "U1")) = 2

\* ------------------------------------------------------------------ C11
\* C11: RecordDonation on a key that already holds a record fails and leaves
\* the stored record as it was.
C11_RecordDonationRefusesExistingKey ==
  [][(Invoked("RecordDonation") /\ last'.key \in DOMAIN store)
     => (last'.err # "ok" /\ store' = store)]_vars

\* ------------------------------------------------------------------ C12
IsDonor(doc) == DOMAIN doc = DonorFields
IsAcceptor(doc) == DOMAIN doc = AcceptorFields

\* C12: a stored Donor or Acceptor record is never changed by a later
\* invocation, whichever operation uses its id as a key.
C12_RegistryImmutable ==
  [][\A k \in DOMAIN store :
       (IsDonor(store[k]) \/ IsAcceptor(store[k]))
         => (k \in DOMAIN store' /\ store'[k] = store[k])]_vars

\* ------------------------------------------------------------------ C13
\* QueryBloodUnit: GetState, nil check, Unmarshal into a BloodUnit.
QueryBloodUnit(st, unitID) ==
  IF unitID \notin DOMAIN st THEN [err |-> "notfound"]
  ELSE [err |-> "ok", value |-> Unmarshal(BloodUnitFields, st[unitID])]

\* Strings a client may pass to QueryBloodUnit in the scenario: the ids in
\* use and the history keys the acceptances can produce.
QueryIds ==
  {"U1", "D1", "A1"}
    \cup {HistoryKey("U1", FormatDate(clk)) : clk \in 0..ScenarioClock}

\* C13: QueryBloodUnit(id) fails with the not-found error for every id that
\* was never passed to a successful RecordDonation.  In the scenario the
\* only RecordDonation is the one of U1, made when pc leaves "registered".
C13_UnknownUnitNotFound ==
  \A id \in QueryIds :
    (id # "U1" \/ pc \in {"start", "registered"})
      => QueryBloodUnit(store, id).err = "notfound"

\* ------------------------------------------------------------------ C14
\* C14: after a successful RecordDonation the record under unitID is a blood
\* unit with status "Collected", the quantity passed in, an empty test
\* result, and the donor id, blood type ("O+") and hospital name ("H1")
\* passed in.
C14_RecordDonationResult ==
  [][(Invoked("RecordDonation") /\ last'.err = "ok")
     => (/\ last'.key \in UnitKeys(store')
         /\ store'[last'.key].status = "Collected"
         /\ store'[last'.key].quantity = last'.qty
         /\ store'[last'.key].testResult = ""
         /\ store'[last'.key].donorID = last'.arg
         /\ store'[last'.key].bloodType = "O+"
         /\ store'[last'.key].hospitalName = "H1")]_vars

\* A donation of a non-zero quantity has just been recorded and is stored as
\* a Collected unit of that quantity.
C14_Witness ==
  /\ last.op = "RecordDonation"
  /\ last.err = "ok"
  /\ last.qty # 0
  /\ last.arg \in DonorArgs
  /\ last.key \in UnitKeys(store)
  /\ store[last.key].status = "Collected"
  /\ store[last.key].quantity = last.qty

\* ------------------------------------------------------------------ C15
\* C15: TestBlood(u, r) on an existing unit succeeds, sets testResult to r
\* and status to "Tested" when r = "Safe" and to "Unsafe" otherwise, leaves
\* the quantity, the other fields and the other keys alone, and a second
\* TestBlood(u, r) leaves the store exactly as the first one left it.
C15_TestBloodResult ==
  [][(Invoked("TestBlood") /\ last'.key \in UnitKeys(store))
     => LET u == last'.key
            r == last'.arg
        IN /\ last'.err = "ok"
           /\ store' = [store EXCEPT
                          ![u] = [store[u] EXCEPT
                                    !.testResult = r,
                                    !.status = IF r = "Safe" THEN "Tested"
                                               ELSE "Unsafe"]]
           /\ Commit(store', TestBlood(store', u, r, 0)) = store']_vars

\* A unit with stock left has just been tested with a result other than
\* "Safe".
C15_Witness ==
  /\ last.op = "TestBlood"
  /\ last.err = "ok"
  /\ last.arg = "Reactive"
  /\ last.key \in UnitKeys(store)
  /\ store[last.key].status = "Unsafe"
  /\ store[last.key].testResult = "Reactive"
  /\ store[last.key].quantity > 0

\* ------------------------------------------------------------------ C16
\* Rich query with the selector {field: value}: the keys of all stored
\* documents that carry the field with that value, whatever their kind.
GetQueryResult(st, field, value) ==
  {k \in DOMAIN st : field \in DOMAIN st[k] /\ st[k][field] = value}

\* QueryBloodUnitsByType: selector on bloodType, every hit unmarshalled into
\* a BloodUnit.
QueryBloodUnitsByType(st, bloodType) ==
  [k \in GetQueryResult(st, "bloodType", bloodType) |->
     Unmarshal(BloodUnitFields, st[k])]

\* QueryDonationHistory: selector on donorID, every hit unmarshalled into a
\* BloodUnit (the handler of lines 268-293; the second variant has none).
QueryDonationHistory(st, donorID) ==
  [k \in GetQueryResult(st, "donorID", donorID) |->
     Unmarshal(BloodUnitFields, st[k])]

\* QueryUsageHistory: selector on acceptorID, every hit unmarshalled into a
\* UsageHistory.
QueryUsageHistory(st, acceptorID) ==
  [k \in GetQueryResult(st, "acceptorID", acceptorID) |->
     Unmarshal(UsageHistoryFields, st[k])]

\* C16: each predicate query returns exactly the stored records of its own
\* kind whose field equals the argument, unchanged.
C16_QueriesReturnOwnKind ==
  /\ \A t \in {"O+"} :
       /\ DOMAIN QueryBloodUnitsByType(store, t)
            = {k \in UnitKeys(store) : store[k].bloodType = t}
       /\ \A k \in DOMAIN QueryBloodUnitsByType(store, t) :
            QueryBloodUnitsByType(store, t)[k] = store[k]
  /\ \A d \in {"D1"} :
       /\ DOMAIN QueryDonationHistory(store, d)
            = {k \in UnitKeys(store) : store[k].donorID = d}
       /\ \A k \in DOMAIN QueryDonationHistory(store, d) :
            QueryDonationHistory(store, d)[k] = store[k]
  /\ \A a \in {"A1"} :
       /\ DOMAIN QueryUsageHistory(store, a)
            = {k \in HistoryKeys(store) : store[k].acceptorID = a}
       /\ \A k \in DOMAIN QueryUsageHistory(store, a) :
            QueryUsageHistory(store, a)[k] = store[k]

\* ------------------------------------------------------------------ C17
\* C17: UseBlood(u) on an existing unit succeeds and sets its status to
\* "Used" whatever its status and remaining quantity, leaving the quantity,
\* every other field and every other key alone; on a missing key it fails
\* and the store is unchanged.
C17_UseBloodFrame ==
  [][/\ (Invoked("UseBlood") /\ last'.key \in UnitKeys(store))
          => /\ last'.err = "ok"
             /\ store' = [store EXCEPT
                            ![last'.key] = [store[last'.key] EXCEPT
                                              !.status = "Used"]]
     /\ (Invoked("UseBlood") /\ last'.key \notin DOMAIN store)
          => (last'.err = "notfound" /\ store' = store)]_vars

\* UseBlood has just marked a unit used that still has stock, next to a
\* history record it left alone.
C17_Witness ==
  /\ last.op = "UseBlood"
  /\ last.err = "ok"
  /\ last.key \in UnitKeys(store)
  /\ store[last.key].status = "Used"
  /\ store[last.key].quantity > 0
  /\ HistoryKeys(store) # {}

\* ------------------------------------------------------------------ C18
\* C18: the acceptorID of a stored unit is empty until the first successful
\* AcceptBlood, and after a successful AcceptBlood(u, a, q) it holds a.
C18_AcceptorSetByAcceptance ==
  /\ [](accepted = 0 => \A k \in UnitKeys(store) : store[k].acceptorID = "")
  /\ [][(Invoked("AcceptBlood") /\ last'.err = "ok")
        => (/\ last'.key \in UnitKeys(store')
            /\ store'[last'.key].acceptorID = last'.acceptor)]_vars

\* ------------------------------------------------------------------ C19
RECURSIVE SumQuantity(_, _)
SumQuantity(st, keys) ==
  IF keys = {} THEN 0
  ELSE LET k == CHOOSE x \in keys : TRUE
       IN st[k].quantity + SumQuantity(st, keys \ {k})

\* C19: for a unit recorded once with quantity Q, the current quantity plus
\* the quantities of all stored history records of the unit equals Q.  U1 is
\* recorded once, with the quantity kept in recorded, and then only accepted
\* from.
C19_InventoryConservation ==
  QuantityOf(store, "U1") + SumQuantity(store, HistoryOf(store, "U1"))
    = recorded

\* ------------------------------------------------------------------ C20
\* C20: no TestBlood, AcceptBlood or UseBlood invocation, whatever integer
\* it is given, raises the stored quantity of a recorded unit.
C20_QuantityNonIncreasing ==
  [][\A k \in UnitKeys(store) :
       (/\ now' = now
        /\ last'.op \in {"TestBlood", "AcceptBlood", "UseBlood"}
        /\ last'.key = k)
       => QuantityOf(store', k) <= store[k].quantity]_vars

\* ------------------------------------------------------------------ C21
IsUnitV1(doc) == DOMAIN doc = BloodUnitFieldsV1
UnitKeysV1(st) == {k \in DOMAIN st : IsUnitV1(st[k])}

\* C21: the two file variants, run side by side on the same sequence of
\* RecordDonation, TestBlood, AcceptBlood and UseBlood invocations, hold the
\* same blood units, and every unit has the same status and the same
\* quantity in both, after every step.
C21_VariantsAgree ==
  /\ UnitKeysV1(store1) = UnitKeys(store)
  /\ \A k \in UnitKeys(store) :
       /\ store1[k].status = store[k].status
       /\ store1[k].quantity = store[k].quantity

\* The step is an AcceptBlood that the second variant accepted with a
\* positive quantity equal to the whole remaining stock.
FullAcceptance ==
  /\ Invoked("AcceptBlood")
  /\ last'.err = "ok"
  /\ last'.qty > 0
  /\ last'.key \in UnitKeys(store)
  /\ store[last'.key].quantity = last'.qty

\* Every other step keeps the variants in agreement: the difference comes
\* from line 230 alone.
VariantsAgreeElsewhere ==
  [][(C21_VariantsAgree /\ ~FullAcceptance) => C21_VariantsAgree']_vars

\* A full acceptance from agreeing stores always separates the variants:
\* the first keeps the old quantity, the second stores 0.
FullAcceptanceSeparates ==
  [][(C21_VariantsAgree /\ FullAcceptance)
       => (/\ store'[last'.key].quantity = 0
           /\ store1'[last'.key].quantity = last'.qty
           /\ store1'[last'.key].status = "Used"
           /\ store'[last'.key].status = "Used")]_vars
====
